---- MODULE Spec2Model ----
(***************************************************************************)
(* Holden Viva steering wheel controls -> JVC head unit                    *)
(* (src/HoldenVivaJVC/HoldenVivaJVC.ino).                                  *)
(*                                                                         *)
(* One control loop: getButton() classifies an ADC sample, loop()          *)
(* dispatches on it and drives five digital lines.  The program counter    *)
(* pc is named after the source line about to be executed; every           *)
(* statement that touches a pin, prints, waits or samples is one step,     *)
(* because the head unit observes the lines between the statements.        *)
(***************************************************************************)
EXTENDS Integers, Sequences, FiniteSets

\* ---- bounds of the model ------------------------------------------------
\* main-loop iterations explored
MaxPolls == 3
\* release-wait re-samples that may still see the triggering button
MaxHold == 3

\* ADC samples fed to analogRead: every threshold, its two neighbours, the
\* ends of the 10 bit range and one value inside each band
Samples == {0, 100, 243, 244, 245, 500, 618, 619, 620, 700, 795, 796, 797,
            850, 906, 907, 908, 950, 987, 988, 989, 1000, 1023}

\* ---- pins (lines 37-41) -------------------------------------------------
powerPin == "power"
modePin == "mode"
seekPin == "seek"
volAPin == "volA"
volBPin == "volB"
Lines == {powerPin, modePin, seekPin, volAPin, volBPin}

VARIABLES
  pc,               \* source line about to be executed
  inputClearsLatch, \* build: does pinMode(pin, INPUT) clear the output latch
  dir,              \* direction of every line: "INPUT" or "OUTPUT"
  level,            \* output latch of every line: "LOW" or "HIGH"
  currentButton,    \* line 57
  sample,           \* s of the last getButton call (line 167)
  ret,              \* value returned by the last getButton call
  trace,            \* what this loop iteration did to the outside, in order
  dir0, level0,     \* dir and level when this loop iteration sampled
  pressed,          \* lines that have completed a level-held sequence
  polls,            \* main-loop samples taken so far
  volPolls,         \* main-loop samples that returned 1 or 2
  trains            \* completed volumeDown()/volumeUp() calls

vars == <<pc, inputClearsLatch, dir, level, currentButton, sample, ret,
          trace, dir0, level0, pressed, polls, volPolls, trains>>

\* ---- events of the trace ------------------------------------------------
Ev(kind, what, ms) == <<kind, what, ms>>

\* ---- hardware primitives, on st = [dir, level, trace] -------------------
hw == [dir |-> dir, level |-> level, trace |-> trace]

\* pinMode: sets the direction.  Going to INPUT clears the latch on cores
\* that do so (inputClearsLatch), and keeps it on the others.
pinMode(st, pin, mode) ==
  LET lv == IF mode = "INPUT" /\ inputClearsLatch THEN "LOW" ELSE st.level[pin]
      ev == IF st.dir[pin] = mode THEN <<>>
            ELSE IF mode = "OUTPUT"
                 THEN <<Ev(IF st.level[pin] = "LOW" THEN "driveLow" ELSE "driveHigh", pin, 0)>>
                 ELSE <<Ev("release", pin, 0)>>
  IN [dir |-> [st.dir EXCEPT ![pin] = mode],
      level |-> [st.level EXCEPT ![pin] = lv],
      trace |-> st.trace \o ev]

\* digitalWrite: sets the latch; on a driven line a change is an edge
digitalWrite(st, pin, val) ==
  LET ev == IF st.dir[pin] = "OUTPUT" /\ st.level[pin] # val
            THEN <<Ev(IF val = "HIGH" THEN "rise" ELSE "fall", pin, 0)>>
            ELSE <<>>
  IN [st EXCEPT !.level[pin] = val, !.trace = @ \o ev]

delay(st, ms) == [st EXCEPT !.trace = Append(@, Ev("delay", "", ms))]

println(st, txt) == [st EXCEPT !.trace = Append(@, Ev("log", txt, 0))]

\* ---- getButton (lines 166-184) ------------------------------------------
\* variant: a button is reported only when it differs from currentButton
getButtonOnChange(s) ==
  LET b == IF s < 244 THEN 1
           ELSE IF s > 244 /\ s < 619 THEN 2
           ELSE IF s > 619 /\ s < 796 THEN 3
           ELSE IF s > 796 /\ s < 907 THEN 4
           ELSE IF s > 907 /\ s < 988 THEN 5
           ELSE 0
  IN IF b = currentButton THEN 0 ELSE b

getButton(s) ==
  IF s < 244 THEN 1
  ELSE IF s > 244 /\ s < 619 THEN 2
  ELSE IF s > 619 /\ s < 796 THEN 3
  ELSE IF s > 796 /\ s < 907 THEN 4
  ELSE IF s > 907 /\ s < 988 THEN 5
  ELSE 0

\* ---- setupVolume / resetVolume (lines 189-202) --------------------------
setupVolume(st) ==
  digitalWrite(digitalWrite(pinMode(pinMode(st, volAPin, "OUTPUT"),
                                    volBPin, "OUTPUT"),
                            volAPin, "LOW"),
               volBPin, "LOW")

resetVolume(st) == pinMode(pinMode(st, volAPin, "INPUT"), volBPin, "INPUT")

\* ---- initial state: globals as initialised, pins as after reset ----------
Init ==
  /\ pc = "setup"
  /\ inputClearsLatch \in BOOLEAN
  /\ dir = [l \in Lines |-> "INPUT"]
  /\ level = [l \in Lines |-> "LOW"]
  /\ currentButton = 0
  /\ sample = 0
  /\ ret = 0
  /\ trace = <<>>
  /\ dir0 = [l \in Lines |-> "INPUT"]
  /\ level0 = [l \in Lines |-> "LOW"]
  /\ pressed = {}
  /\ polls = 0
  /\ volPolls = 0
  /\ trains = 0

\* ---- step helpers -------------------------------------------------------
Apply(st) == dir' = st.dir /\ level' = st.level /\ trace' = st.trace

\* a statement that only acts on the hardware
Stmt(from, to, st) ==
  /\ pc = from
  /\ pc' = to
  /\ Apply(st)
  /\ UNCHANGED <<inputClearsLatch, currentButton, sample, ret, dir0, level0,
                 pressed, polls, volPolls, trains>>

\* if(currentButton == b) { Serial.println(txt); ... }
Branch(from, b, txt, then, else) ==
  /\ pc = from
  /\ IF currentButton = b
     THEN pc' = then /\ Apply(println(hw, txt))
     ELSE pc' = else /\ UNCHANGED <<dir, level, trace>>
  /\ UNCHANGED <<inputClearsLatch, currentButton, sample, ret, dir0, level0,
                 pressed, polls, volPolls, trains>>

\* release-wait re-samples seen so far in this iteration
Holds == Len(SelectSeq(trace, LAMBDA e : e[1] = "delay" /\ e[3] = 50))

\* variant: the wait is never left
ReleaseWaitStuck(from, b, body, exit) ==
  /\ pc = from
  /\ Holds < MaxHold
  /\ \E s \in Samples : sample' = s /\ ret' = getButton(s)
  /\ pc' = body
  /\ UNCHANGED <<inputClearsLatch, dir, level, currentButton, trace, dir0,
                 level0, pressed, polls, volPolls, trains>>

\* variant: the wait lasts while any button is seen
ReleaseWaitAny(from, b, body, exit) ==
  /\ pc = from
  /\ \E s \in Samples :
       /\ getButton(s) # 0 => Holds < MaxHold
       /\ sample' = s
       /\ ret' = getButton(s)
       /\ pc' = IF getButton(s) # 0 THEN body ELSE exit
  /\ UNCHANGED <<inputClearsLatch, dir, level, currentButton, trace, dir0,
                 level0, pressed, polls, volPolls, trains>>

\* while(getButton() == b) : one call and the test of its result
ReleaseWait(from, b, body, exit) ==
  /\ pc = from
  /\ \E s \in Samples :
       /\ getButton(s) = b => Holds < MaxHold
       /\ sample' = s
       /\ ret' = getButton(s)
       /\ pc' = IF getButton(s) = b THEN body ELSE exit
  /\ UNCHANGED <<inputClearsLatch, dir, level, currentButton, trace, dir0,
                 level0, pressed, polls, volPolls, trains>>

\* ---- setup (lines 62-77) ------------------------------------------------
setup ==
  /\ pc = "setup"
  /\ pc' = "L85"
  /\ LET a == pinMode(hw, powerPin, "INPUT")
         b == pinMode(a, modePin, "INPUT")
         c == pinMode(b, seekPin, "INPUT")
         d == pinMode(c, volAPin, "OUTPUT")
         e == pinMode(d, volBPin, "OUTPUT")
         f == digitalWrite(e, volAPin, "LOW")
         g == digitalWrite(f, volBPin, "LOW")
     IN Apply(g)
  /\ UNCHANGED <<inputClearsLatch, currentButton, sample, ret, dir0, level0,
                 pressed, polls, volPolls, trains>>

\* ---- loop (lines 82-157) ------------------------------------------------
\* line 85, right-hand side: the call of getButton
loop_L85_getButton ==
  /\ pc = "L85"
  /\ polls < MaxPolls
  /\ \E s \in Samples : sample' = s /\ ret' = getButton(s)
  /\ pc' = "L85assign"
  /\ polls' = polls + 1
  /\ trace' = <<>>
  /\ dir0' = dir
  /\ level0' = level
  /\ UNCHANGED <<inputClearsLatch, dir, level, currentButton, pressed,
                 volPolls, trains>>

\* line 85, the assignment
loop_L85_assign ==
  /\ pc = "L85assign"
  /\ currentButton' = ret
  /\ volPolls' = IF ret \in {1, 2} THEN volPolls + 1 ELSE volPolls
  /\ pc' = "L90"
  /\ UNCHANGED <<inputClearsLatch, dir, level, sample, ret, trace, dir0,
                 level0, pressed, polls, trains>>

\* variant: the main delay sits inside the if
loop_L90_inner ==
  /\ pc = "L90"
  /\ pc' = IF currentButton # 0 THEN "L95" ELSE "L85"
  /\ UNCHANGED <<inputClearsLatch, dir, level, currentButton, sample, ret,
                 trace, dir0, level0, pressed, polls, volPolls, trains>>

loop_L90 ==
  /\ pc = "L90"
  /\ pc' = IF currentButton # 0 THEN "L95" ELSE "L156"
  /\ UNCHANGED <<inputClearsLatch, dir, level, currentButton, sample, ret,
                 trace, dir0, level0, pressed, polls, volPolls, trains>>

\* variant: the first branch is taken for every button
loop_L95_any ==
  /\ pc = "L95"
  /\ IF currentButton # 0
     THEN pc' = "L97" /\ Apply(println(hw, "Volume Down"))
     ELSE pc' = "L103" /\ UNCHANGED <<dir, level, trace>>
  /\ UNCHANGED <<inputClearsLatch, currentButton, sample, ret, dir0, level0,
                 pressed, polls, volPolls, trains>>

loop_L95 == Branch("L95", 1, "Volume Down", "L97", "L103")
loop_L97 == Stmt("L97", "L209", hw)
loop_L98 == Stmt("L98", "L103", delay(hw, 50))

loop_L103 == Branch("L103", 2, "Volume Up", "L105", "L111")
loop_L105 == Stmt("L105", "L235", hw)
loop_L106 == Stmt("L106", "L111", delay(hw, 50))

loop_L111 == Branch("L111", 3, "Seek: Down", "L113", "L126")
loop_L113 == Stmt("L113", "L114", pinMode(hw, seekPin, "OUTPUT"))
\* variant: the line is driven HIGH while the button is pushed
loop_L114_high == Stmt("L114", "L116", digitalWrite(hw, seekPin, "HIGH"))

loop_L114 == Stmt("L114", "L116", digitalWrite(hw, seekPin, "LOW"))
loop_L116 == ReleaseWait("L116", 3, "L117", "L119")
loop_L117 == Stmt("L117", "L116", delay(hw, 50))
loop_L119 == Stmt("L119", "L120", println(hw, "Seek: Up"))
loop_L120 == Stmt("L120", "L121", digitalWrite(hw, seekPin, "HIGH"))
\* variant: the line is not handed back
loop_L121_stays ==
  /\ pc = "L121"
  /\ pc' = "L126"
  /\ pressed' = pressed \cup {seekPin}
  /\ UNCHANGED <<inputClearsLatch, dir, level, trace, currentButton, sample,
                 ret, dir0, level0, polls, volPolls, trains>>

loop_L121 ==
  /\ pc = "L121"
  /\ pc' = "L126"
  /\ Apply(pinMode(hw, seekPin, "INPUT"))
  /\ pressed' = pressed \cup {seekPin}
  /\ UNCHANGED <<inputClearsLatch, currentButton, sample, ret, dir0, level0,
                 polls, volPolls, trains>>

\* variant: the branch tests the latest getButton result
loop_L126_latest ==
  /\ pc = "L126"
  /\ IF ret = 4
     THEN pc' = "L128" /\ Apply(println(hw, "Mode: Down"))
     ELSE pc' = "L141" /\ UNCHANGED <<dir, level, trace>>
  /\ UNCHANGED <<inputClearsLatch, currentButton, sample, ret, dir0, level0,
                 pressed, polls, volPolls, trains>>

loop_L126 == Branch("L126", 4, "Mode: Down", "L128", "L141")
loop_L128 == Stmt("L128", "L129", pinMode(hw, modePin, "OUTPUT"))
loop_L129 == Stmt("L129", "L131", digitalWrite(hw, modePin, "LOW"))
loop_L131 == ReleaseWait("L131", 4, "L132", "L134")
loop_L132 == Stmt("L132", "L131", delay(hw, 50))
\* variant: the release is not reported
loop_L134_silent == Stmt("L134", "L135", hw)

loop_L134 == Stmt("L134", "L135", println(hw, "Mode: Up"))
loop_L135 == Stmt("L135", "L136", digitalWrite(hw, modePin, "HIGH"))
loop_L136 ==
  /\ pc = "L136"
  /\ pc' = "L141"
  /\ Apply(pinMode(hw, modePin, "INPUT"))
  /\ pressed' = pressed \cup {modePin}
  /\ UNCHANGED <<inputClearsLatch, currentButton, sample, ret, dir0, level0,
                 polls, volPolls, trains>>

loop_L141 == Branch("L141", 5, "Power: Down", "L143", "L156")
\* variant: the Mode line is switched instead of the Power line
loop_L143_mode == Stmt("L143", "L144", pinMode(hw, modePin, "OUTPUT"))

loop_L143 == Stmt("L143", "L144", pinMode(hw, powerPin, "OUTPUT"))
loop_L144 == Stmt("L144", "L146", digitalWrite(hw, powerPin, "LOW"))
loop_L146 == ReleaseWait("L146", 5, "L147", "L149")
loop_L147 == Stmt("L147", "L146", delay(hw, 50))
loop_L149 == Stmt("L149", "L150", println(hw, "Power: Up"))
loop_L150 == Stmt("L150", "L151", digitalWrite(hw, powerPin, "HIGH"))
loop_L151 ==
  /\ pc = "L151"
  /\ pc' = "L156"
  /\ Apply(pinMode(hw, powerPin, "INPUT"))
  /\ pressed' = pressed \cup {powerPin}
  /\ UNCHANGED <<inputClearsLatch, currentButton, sample, ret, dir0, level0,
                 polls, volPolls, trains>>

loop_L156 == Stmt("L156", "L85", delay(hw, 100))

\* ---- volumeDown (lines 207-228) -----------------------------------------
volumeDown_L209 == Stmt("L209", "L212", setupVolume(hw))
volumeDown_L212 == Stmt("L212", "L213", digitalWrite(hw, volBPin, "HIGH"))
volumeDown_L213 == Stmt("L213", "L216", delay(hw, 10))
volumeDown_L216 == Stmt("L216", "L217", digitalWrite(hw, volAPin, "HIGH"))
volumeDown_L217 == Stmt("L217", "L220", delay(hw, 10))
volumeDown_L220 == Stmt("L220", "L221", digitalWrite(hw, volBPin, "LOW"))
volumeDown_L221 == Stmt("L221", "L224", delay(hw, 10))
volumeDown_L224 == Stmt("L224", "L225", digitalWrite(hw, volAPin, "LOW"))
volumeDown_L225 == Stmt("L225", "L227", delay(hw, 10))
volumeDown_L227 ==
  /\ pc = "L227"
  /\ pc' = "L98"
  /\ Apply(resetVolume(hw))
  /\ trains' = trains + 1
  /\ UNCHANGED <<inputClearsLatch, currentButton, sample, ret, dir0, level0,
                 pressed, polls, volPolls>>

\* ---- volumeUp (lines 233-254) -------------------------------------------
volumeUp_L235 == Stmt("L235", "L238", setupVolume(hw))
volumeUp_L238 == Stmt("L238", "L239", digitalWrite(hw, volAPin, "HIGH"))
volumeUp_L239 == Stmt("L239", "L242", delay(hw, 10))
volumeUp_L242 == Stmt("L242", "L243", digitalWrite(hw, volBPin, "HIGH"))
volumeUp_L243 == Stmt("L243", "L246", delay(hw, 10))
\* variant: B is lowered before A
volumeUp_L246_B == Stmt("L246", "L247", digitalWrite(hw, volBPin, "LOW"))

volumeUp_L246 == Stmt("L246", "L247", digitalWrite(hw, volAPin, "LOW"))
volumeUp_L247 == Stmt("L247", "L250", delay(hw, 10))
volumeUp_L250 == Stmt("L250", "L251", digitalWrite(hw, volBPin, "LOW"))
volumeUp_L251 == Stmt("L251", "L253", delay(hw, 10))
volumeUp_L253 ==
  /\ pc = "L253"
  /\ pc' = "L106"
  /\ Apply(resetVolume(hw))
  /\ trains' = trains + 1
  /\ UNCHANGED <<inputClearsLatch, currentButton, sample, ret, dir0, level0,
                 pressed, polls, volPolls>>

Next ==
  \/ setup
  \/ loop_L85_getButton \/ loop_L85_assign \/ loop_L90
  \/ loop_L95 \/ loop_L97 \/ loop_L98
  \/ loop_L103 \/ loop_L105 \/ loop_L106
  \/ loop_L111 \/ loop_L113 \/ loop_L114 \/ loop_L116 \/ loop_L117
  \/ loop_L119 \/ loop_L120 \/ loop_L121
  \/ loop_L126 \/ loop_L128 \/ loop_L129 \/ loop_L131 \/ loop_L132
  \/ loop_L134 \/ loop_L135 \/ loop_L136
  \/ loop_L141 \/ loop_L143 \/ loop_L144 \/ loop_L146 \/ loop_L147
  \/ loop_L149 \/ loop_L150 \/ loop_L151
  \/ loop_L156
  \/ volumeDown_L209 \/ volumeDown_L212 \/ volumeDown_L213 \/ volumeDown_L216
  \/ volumeDown_L217 \/ volumeDown_L220 \/ volumeDown_L221 \/ volumeDown_L224
  \/ volumeDown_L225 \/ volumeDown_L227
  \/ volumeUp_L235 \/ volumeUp_L238 \/ volumeUp_L239 \/ volumeUp_L242
  \/ volumeUp_L243 \/ volumeUp_L246 \/ volumeUp_L247 \/ volumeUp_L250
  \/ volumeUp_L251 \/ volumeUp_L253

Spec == Init /\ [][Next]_vars

\* ---- vocabulary of the properties ---------------------------------------
\* the line a level-held button drives, and the lines of every button
HeldLine(b) == IF b = 3 THEN seekPin ELSE IF b = 4 THEN modePin ELSE powerPin

LinesOf(b) ==
  IF b \in {1, 2} THEN {volAPin, volBPin}
  ELSE IF b \in {3, 4, 5} THEN {HeldLine(b)}
  ELSE {}

\* positions of a level-held sequence: the release-wait, the whole span in
\* which the line is driven, and the position right after the sequence
WaitPcs(b) ==
  IF b = 3 THEN {"L116", "L117"}
  ELSE IF b = 4 THEN {"L131", "L132"} ELSE {"L146", "L147"}

CallPc(b) == IF b = 3 THEN "L116" ELSE IF b = 4 THEN "L131" ELSE "L146"
BodyPc(b) == IF b = 3 THEN "L117" ELSE IF b = 4 THEN "L132" ELSE "L147"
ExitPcs(b) ==
  IF b = 3 THEN {"L119", "L120", "L121"}
  ELSE IF b = 4 THEN {"L134", "L135", "L136"} ELSE {"L149", "L150", "L151"}

ReleasedPc(b) == IF b = 3 THEN "L119" ELSE IF b = 4 THEN "L134" ELSE "L149"

DrivenPcs(b) ==
  IF b = 3 THEN {"L114", "L116", "L117", "L119", "L120", "L121"}
  ELSE IF b = 4 THEN {"L129", "L131", "L132", "L134", "L135", "L136"}
  ELSE {"L144", "L146", "L147", "L149", "L150", "L151"}

AfterPc(b) == IF b = 3 THEN "L126" ELSE IF b = 4 THEN "L141" ELSE "L156"

\* the sequence of button b has just run to its end
Ended(b) == pc = AfterPc(b) /\ currentButton = b /\ polls >= 1

\* positions inside volumeDown()/volumeUp() after setupVolume()
VolumePcs ==
  {"L212", "L213", "L216", "L217", "L220", "L221", "L224", "L225", "L227",
   "L238", "L239", "L242", "L243", "L246", "L247", "L250", "L251", "L253"}

PinKinds == {"driveLow", "driveHigh", "release", "rise", "fall"}

PinEvents(l) == SelectSeq(trace, LAMBDA e : e[1] \in PinKinds /\ e[2] = l)
Downs(l) == Len(SelectSeq(trace, LAMBDA e : e[1] \in {"driveLow", "fall"} /\ e[2] = l))
Ups(l) == Len(SelectSeq(trace, LAMBDA e : e[1] = "rise" /\ e[2] = l))
Touched == {l \in Lines : PinEvents(l) # <<>>}
Logs == SelectSeq(trace, LAMBDA e : e[1] = "log")

TypeOK ==
  /\ dir \in [Lines -> {"INPUT", "OUTPUT"}]
  /\ level \in [Lines -> {"LOW", "HIGH"}]
  /\ currentButton \in 0..5
  /\ ret \in 0..5
  /\ polls \in 0..MaxPolls

\* ---- C1 ------------------------------------------------------------------
\* the bands as the claim states them: contiguous and half-open
BandOf(s) ==
  IF s < 244 THEN 1
  ELSE IF s < 619 THEN 2
  ELSE IF s < 796 THEN 3
  ELSE IF s < 907 THEN 4
  ELSE IF s < 988 THEN 5
  ELSE 0

\* C1: whatever sample getButton has read, the identity it returned is the
\* one of the contiguous half-open band the sample lies in; a sample equal
\* to a threshold belongs to the higher band.
C1_ContiguousBands == polls >= 1 => ret = BandOf(sample)

\* ---- C2 ------------------------------------------------------------------
\* line l is inside an emulated action for that line
InAction(l) ==
  IF l \in {volAPin, volBPin} THEN pc \in VolumePcs
  ELSE \E b \in {3, 4, 5} : HeldLine(b) = l /\ pc \in DrivenPcs(b)

\* C2: from the end of setup() on, a line that is not inside an emulated
\* action for that line has direction INPUT.
C2_IdleLinesAreInputs ==
  pc # "setup" => \A l \in Lines : dir[l] = "OUTPUT" => InAction(l)

Restoring(b) == pc = IF b = 3 THEN "L121" ELSE IF b = 4 THEN "L136" ELSE "L151"

Train ==
  SelectSeq(trace, LAMBDA e : \/ e[1] \in {"rise", "fall"} /\ e[2] \in {volAPin, volBPin}
                              \/ e[1] = "delay")

SwapAB(l) == IF l = volAPin THEN volBPin ELSE IF l = volBPin THEN volAPin ELSE l
SwapTrain(t) == [i \in 1..Len(t) |-> Ev(t[i][1], SwapAB(t[i][2]), t[i][3])]

UpTrain ==
  <<Ev("rise", volAPin, 0), Ev("delay", "", 10),
    Ev("rise", volBPin, 0), Ev("delay", "", 10),
    Ev("fall", volAPin, 0), Ev("delay", "", 10),
    Ev("fall", volBPin, 0), Ev("delay", "", 10)>>

DownTrain ==
  <<Ev("rise", volBPin, 0), Ev("delay", "", 10),
    Ev("rise", volAPin, 0), Ev("delay", "", 10),
    Ev("fall", volBPin, 0), Ev("delay", "", 10),
    Ev("fall", volAPin, 0), Ev("delay", "", 10)>>

\* C5: when volumeUp() returns the volume lines have made exactly the edges
\* A-rise, B-rise, A-fall, B-fall, each followed by a 10 ms wait; when
\* volumeDown() returns, the same with A and B exchanged; both lines are
\* driven LOW when the first edge is due and are INPUT on return.
C5_QuadratureTrains ==
  /\ pc = "L106" => Train = UpTrain
  /\ pc = "L98" => Train = DownTrain /\ Train = SwapTrain(UpTrain)
  /\ pc \in {"L212", "L238"} =>
       /\ Train = <<>>
       /\ \A l \in {volAPin, volBPin} : dir[l] = "OUTPUT" /\ level[l] = "LOW"
  /\ pc \in {"L98", "L106"} => \A l \in {volAPin, volBPin} : dir[l] = "INPUT"

\* a volumeUp() that started from lines already handed back has returned
C5_Witness ==
  /\ pc = "L106"
  /\ Train = UpTrain
  /\ dir0[volAPin] = "INPUT"
  /\ dir[volAPin] = "INPUT"
  /\ dir[volBPin] = "INPUT"

\* ---- C6 ------------------------------------------------------------------
\* pulse trains of this iteration: one per rising edge of line A
TrainsNow == Ups(volAPin)

\* C6: at every main-loop sample the number of completed pulse trains
\* equals the number of main-loop samples that returned a volume identity;
\* an iteration makes one train if it sampled a volume identity and none
\* otherwise, and never re-samples before its end.
C6_OneTrainPerVolumePoll ==
  /\ trains <= volPolls /\ volPolls <= trains + 1
  /\ pc = "L85" => trains = volPolls
  /\ (pc = "L156" /\ polls >= 1) =>
       /\ TrainsNow = IF currentButton \in {1, 2} THEN 1 ELSE 0
       /\ currentButton \in {1, 2} => ret = currentButton

\* Volume Up at one main-loop sample, None at the next
C6_Witness ==
  /\ pc = "L156"
  /\ polls = 2
  /\ volPolls = 1
  /\ trains = 1
  /\ currentButton = 0
  /\ trace = <<>>

CallPcs == {"L85", "L116", "L131", "L146"}
IsCall == pc \in CallPcs

\* C9: a call of getButton changes no direction, no latch and not
\* currentButton, and when it reads the sample the previous call read it
\* returns what the previous call returned.
C9_GetButtonPure ==
  [][IsCall =>
       /\ UNCHANGED <<dir, level, currentButton>>
       /\ (polls >= 1 /\ sample' = sample) => ret' = ret]_vars

\* a re-sample taken while Seek is driven returned Seek and the wait goes on
C9_Witness ==
  /\ pc = "L117"
  /\ currentButton = 3
  /\ ret = 3
  /\ sample = 700
  /\ Holds = 1
  /\ dir[seekPin] = "OUTPUT"

\* ---- C10 -----------------------------------------------------------------
DispatchLog(b) ==
  IF b = 1 THEN "Volume Down" ELSE IF b = 2 THEN "Volume Up"
  ELSE IF b = 3 THEN "Seek: Down" ELSE IF b = 4 THEN "Mode: Down"
  ELSE "Power: Down"

ReleaseLog(b) ==
  IF b = 3 THEN "Seek: Up" ELSE IF b = 4 THEN "Mode: Up" ELSE "Power: Up"

\* C10: at the end of an iteration the lines printed are: none for None;
\* the one dispatch line, printed first, for a volume button; for a
\* level-held button its Down line, printed before the line was driven,
\* and its Up line, printed after the release-wait and before the rise.
C10_LogLines ==
  /\ (polls >= 1 /\ pc = "L156") =>
       /\ currentButton = 0 => Logs = <<>>
       /\ currentButton \in {1, 2} =>
            /\ Logs = <<Ev("log", DispatchLog(currentButton), 0)>>
            /\ trace[1] = Ev("log", DispatchLog(currentButton), 0)
       /\ currentButton \in {3, 4, 5} =>
            /\ Logs = <<Ev("log", DispatchLog(currentButton), 0),
                        Ev("log", ReleaseLog(currentButton), 0)>>
            /\ trace[1] = Ev("log", DispatchLog(currentButton), 0)
            /\ trace[Len(trace) - 2] = Ev("log", ReleaseLog(currentButton), 0)
            /\ trace[Len(trace) - 1] = Ev("rise", HeldLine(currentButton), 0)
  /\ \A b \in {3, 4, 5} :
       pc \in WaitPcs(b) => Logs = <<Ev("log", DispatchLog(b), 0)>>

\* a Mode press held over one re-sample has logged its Down and its Up
C10_Witness ==
  /\ pc = "L156"
  /\ currentButton = 4
  /\ Holds = 1
  /\ Logs = <<Ev("log", "Mode: Down", 0), Ev("log", "Mode: Up", 0)>>

\* ---- C11 -----------------------------------------------------------------
\* the waits of this iteration, in order, as milliseconds
Delays ==
  LET d == SelectSeq(trace, LAMBDA e : e[1] = "delay")
  IN [i \in 1..Len(d) |-> d[i][3]]

Count(seq, x) == Len(SelectSeq(seq, LAMBDA y : y = x))

\* C11: when the main loop is about to sample again, the iteration behind it
\* has waited 100 ms exactly once, as its last act; a volume iteration has
\* in addition waited 50 ms once, right after its action; a level-held
\* iteration has waited nothing between handing its line back and the
\* 100 ms, its only 50 ms waits being those of the release-wait; before the
\* end of an iteration no 100 ms wait has happened.
C11_LoopCadence ==
  /\ (polls >= 1 /\ pc # "L85") => Count(Delays, 100) = 0
  /\ (polls >= 1 /\ pc = "L85") =>
       /\ Count(Delays, 100) = 1
       /\ trace[Len(trace)] = Ev("delay", "", 100)
       /\ currentButton = 0 => Delays = <<100>>
       /\ currentButton \in {1, 2} =>
            /\ Delays = <<10, 10, 10, 10, 50, 100>>
            /\ trace[Len(trace) - 1] = Ev("delay", "", 50)
            /\ trace[Len(trace) - 2] = Ev("release", volBPin, 0)
       /\ currentButton \in {3, 4, 5} =>
            /\ trace[Len(trace) - 1] = Ev("release", HeldLine(currentButton), 0)
            /\ Count(Delays, 50) = Len(Delays) - 1
            /\ \A i \in 1..Len(trace) :
                 trace[i] = Ev("log", ReleaseLog(currentButton), 0) =>
                   \A j \in i..Len(trace) : trace[j] # Ev("delay", "", 50)

\* a Volume Up iteration is over and the next sample is due
C11_Witness ==
  /\ pc = "L85"
  /\ polls = 2
  /\ currentButton = 2
  /\ Delays = <<10, 10, 10, 10, 50, 100>>

\* ---- C12 -----------------------------------------------------------------
\* The loop is the only thread and every delay returns, so the program
\* always takes its next step; the button is released after at most MaxHold
\* matching re-samples (guard of ReleaseWait).
LiveSpec == Init /\ [][Next]_vars /\ WF_vars(Next)

\* a level-held sequence has started and not yet handed its line back
Holding(b) == pc \in DrivenPcs(b) /\ dir[HeldLine(b)] = "OUTPUT"

\* C12: given that the re-samples eventually differ from the triggering
\* button, a started level-held sequence leads to its completion with the
\* line back at INPUT, to the main loop standing at its next sample, and,
\* while iterations remain, to that sample being taken; until a re-sample
\* differs the loop does not leave the release-wait.
C12_ReleaseLiveness ==
  /\ \A b \in {3, 4, 5} :
       /\ Holding(b) ~> (Ended(b) /\ dir[HeldLine(b)] = "INPUT")
       /\ Holding(b) ~> (pc = "L85" /\ dir[HeldLine(b)] = "INPUT")
       /\ \A k \in 1..(MaxPolls - 1) :
            (Holding(b) /\ polls = k) ~> (polls = k + 1)
  /\ [][\A b \in {3, 4, 5} :
          (pc \in WaitPcs(b) /\ ret' = b) => pc' \in WaitPcs(b)]_vars

\* Power was held for as long as the bound allows, was released, and the
\* following main-loop sample has been taken
C12_Witness ==
  /\ pc = "L85assign"
  /\ polls = 2
  /\ currentButton = 5
  /\ pressed = {powerPin}
  /\ dir[powerPin] = "INPUT"

\* ---- C13 -----------------------------------------------------------------
\* C13: from the sample an iteration dispatches on to the next sample, every
\* line that does not belong to the sampled button keeps the direction and
\* the latch it had at that sample: the other four lines during a Seek,
\* Mode or Power action, the seek, mode and power lines during a volume
\* action.
C13_OtherLinesUntouched ==
  (polls >= 1 /\ pc # "L85assign") =>
    \A l \in Lines \ LinesOf(currentButton) :
      dir[l] = dir0[l] /\ level[l] = level0[l]

\* a Power action is about to hand its line back; the four other lines are
\* as they were, the seek latch still HIGH from an earlier press
C13_Witness ==
  /\ pc = "L151"
  /\ currentButton = 5
  /\ dir[powerPin] = "OUTPUT"
  /\ level[powerPin] = "HIGH"
  /\ level[seekPin] = "HIGH"
  /\ level0[seekPin] = "HIGH"
  /\ \A l \in Lines \ {powerPin} : dir[l] = "INPUT"

\* ---- C14 -----------------------------------------------------------------
\* C14: from the end of setup() on, at most one of the seek, mode and power
\* lines is OUTPUT, and neither volume line is OUTPUT while a seek, mode or
\* power line is.
C14_SingleOwner ==
  pc # "setup" =>
    /\ Cardinality({l \in {seekPin, modePin, powerPin} : dir[l] = "OUTPUT"}) <= 1
    /\ (\E l \in {seekPin, modePin, powerPin} : dir[l] = "OUTPUT") =>
         (dir[volAPin] = "INPUT" /\ dir[volBPin] = "INPUT")
====
